---- MODULE Spec2Model ----
(***************************************************************************)
(* Model of api/search-artist.js: the Spotify token provider, the ranking  *)
(* fan-out and aggregation, the ranking cache and the two endpoints.       *)
(*                                                                         *)
(* The file holds three deployments of the same service:                   *)
(*   "handler" lines   1- 71  serverless lookup handler (token + lookup)   *)
(*   "server"  lines  73-243  express server, cache inside getArtistsRanking*)
(*   "index"   lines 245-456  express server, getRankedArtists + cache in  *)
(*                            the /api/artists-ranking route               *)
(* `variant` says which one runs; the three never share state.             *)
(***************************************************************************)
EXTENDS Integers, Sequences, FiniteSets, TLC

VARIABLES
    variant,             \* which of the three deployments is running
    credsConfigured,     \* SPOTIFY_CLIENT_ID and SPOTIFY_CLIENT_SECRET are both set
    clock,               \* Date.now(), in milliseconds
    ticks,               \* how often the clock has advanced
    started,             \* how many requests have arrived
    issued,              \* how many tokens the accounts service has issued
    spotifyAccessToken,  \* module variable: null or the cached token string
    tokenExpiryTime,     \* module variable: absolute expiry, ms
    cachedRanking,       \* module variable: null or the stored Ranking
    lastCacheTime,       \* module variable: computedAt, ms
    req,                 \* the requests in flight, each suspended at an await
    ev                   \* what the last step sent: network calls and a response

vars == <<variant, credsConfigured, clock, ticks, started, issued, spotifyAccessToken,
          tokenExpiryTime, cachedRanking, lastCacheTime, req, ev>>

(***************************************************************************)
(* JavaScript values.  Every scalar has the same record shape, so that two *)
(* values of different JavaScript types can be compared.                   *)
(***************************************************************************)
Undefined == [t |-> "undefined", n |-> 0, s |-> ""]
JsNull == [t |-> "null", n |-> 0, s |-> ""]
Num(k) == [t |-> "number", n |-> k, s |-> ""]
Str(x) == [t |-> "string", n |-> 0, s |-> x]

\* ToBoolean of a scalar: undefined, null, 0 and "" are falsy.
Truthy(v) ==
    CASE v.t = "number" -> v.n # 0
      [] v.t = "string" -> v.s # ""
      [] OTHER -> FALSE

\* An element of artist.images.
Img(w, u) == [width |-> w, url |-> u]

\* artist.followers: an object holding total, or absent.
Followers(total) == [t |-> "object", total |-> total]
NoFollowers == [t |-> "undefined", total |-> Undefined]

\* artist.images: an array, or absent.
Images(list) == [t |-> "object", items |-> list]
NoImages == [t |-> "undefined", items |-> <<>>]

\* One element of artists.items in a search response.
RawArtist(id, name, followers, popularity, images) ==
    [t |-> "object", id |-> id, name |-> name, followers |-> followers,
     popularity |-> popularity, images |-> images]
NullArtist ==
    [t |-> "null", id |-> Undefined, name |-> Undefined, followers |-> NoFollowers,
     popularity |-> Undefined, images |-> NoImages]

(***************************************************************************)
(* Program constants.                                                      *)
(***************************************************************************)
TOKEN_REFRESH_THRESHOLD == 60 * 5
\* Mutant: the handler's constant, already in milliseconds, multiplied by 1000
\* as the servers multiply theirs.
ThresholdMsTwice(v) == 60 * 5 * 1000 * 1000

\* The threshold in milliseconds: the handler's constant is 60 * 5 * 1000 and is
\* used as it is, the two servers multiply theirs by 1000 at the comparison.
ThresholdMs(v) == IF v = "handler" THEN 60 * 5 * 1000 ELSE TOKEN_REFRESH_THRESHOLD * 1000
CACHE_LIFETIME == 1000 * 60 * 60
RANKING_SIZE == 100
SEARCH_LIMIT == 50

ServerQueries ==
    <<"a", "e", "i", "o", "u", "pop", "rock", "hip hop", "trap", "reggae",
      "dance", "country", "band", "legend", "star">>
IndexQueries ==
    <<"a", "e", "i", "o", "u", "the", "pop", "rock", "hip hop", "r&b", "dance",
      "country", "jazz", "band", "singer", "group", "star", "legend", "love",
      "world">>
SEARCH_QUERIES(v) == IF v = "index" THEN IndexQueries ELSE ServerQueries
SEARCH_OFFSETS(v) == IF v = "index" THEN <<0, 50, 100, 150, 200>> ELSE <<0, 50, 100>>

\* The number of search requests of one fan-out: the cross-product.
NumSlots(v) == Len(SEARCH_QUERIES(v)) * Len(SEARCH_OFFSETS(v))

(***************************************************************************)
(* The fan-out's promise chain: what one search request leaves in its slot *)
(* of `results`.  An upstream outcome is                                   *)
(*   "error"     network error or non-success status (axios rejects)       *)
(*   "noartists" a body without an artists object                          *)
(*   "noitems"   an artists object whose items is null or missing          *)
(*   "ok"        artists.items is the array `items`                        *)
(***************************************************************************)
Page(items) == [kind |-> "ok", items |-> items]
PageError == [kind |-> "error", items |-> <<>>]
PageNoArtists == [kind |-> "noartists", items |-> <<>>]
PageNoItems == [kind |-> "noitems", items |-> <<>>]

\* A slot of `results`: an array, or undefined.
SlotArray(items) == [t |-> "object", items |-> items]
SlotUndefined == [t |-> "undefined", items |-> <<>>]

\* Mutant: the .catch(() => []) of the promise chain left out, so that a failed
\* request leaves no array in its slot.
SlotResultNoCatch(v, page) ==
    CASE page.kind \in {"error", "noartists"} -> SlotUndefined
      [] page.kind = "noitems" ->
             IF v = "index" THEN SlotUndefined ELSE SlotArray(<<>>)
      [] OTHER -> SlotArray(page.items)

\* .then(res => res.data.artists.items || []).catch(() => [])
\* .then(response => response.data.artists.items).catch(error => [])
SlotResult(v, page) ==
    CASE page.kind = "error" -> SlotArray(<<>>)
      [] page.kind = "noartists" -> SlotArray(<<>>)   \* TypeError in then, caught
      [] page.kind = "noitems" ->
             IF v = "index" THEN SlotUndefined ELSE SlotArray(<<>>)
      [] OTHER -> SlotArray(page.items)

\* results = await Promise.all(searchPromises): one slot per (query, offset), in
\* the order the requests were pushed.  `pages` answers the first slots; every
\* other request of the fan-out fails.
Results(v, pages) ==
    [i \in 1..NumSlots(v) |->
        IF i <= Len(pages) THEN SlotResult(v, pages[i]) ELSE SlotResult(v, PageError)]

(***************************************************************************)
(* The aggregation.                                                        *)
(***************************************************************************)
\* The acceptance test of getArtistsRanking (optional chaining throughout).
AcceptServer(a) ==
    /\ a.t = "object"
    /\ Truthy(a.id)
    /\ Truthy(a.name)
    /\ a.followers.t = "object" /\ Truthy(a.followers.total)
    /\ a.popularity.t = "number"
    /\ a.images.t = "object" /\ Len(a.images.items) > 0
    /\ Truthy(a.images.items[1].url)

\* The acceptance test of getRankedArtists (artist is dereferenced directly).
AcceptIndex(a) ==
    /\ Truthy(a.id)
    /\ Truthy(a.name)
    /\ a.images.t = "object" /\ Len(a.images.items) > 0
    /\ a.followers.t = "object"
    /\ a.popularity.t = "number"

Accept(v, a) == IF v = "index" THEN AcceptIndex(a) ELSE AcceptServer(a)

\* artist.images.find(img => img.width === 64) || images[length - 1] || images[0]
ChosenImage(images) ==
    LET hits == {i \in 1..Len(images) : images[i].width = Num(64)}
    IN  IF hits # {}
        THEN images[CHOOSE i \in hits : \A j \in hits : i <= j]
        ELSE images[Len(images)]

\* The record stored for an accepted artist.
ImageUrl(v, a) ==
    IF v = "index" THEN ChosenImage(a.images.items).url ELSE a.images.items[1].url

ArtistRecord(v, a) ==
    [id |-> a.id, name |-> a.name, followers |-> a.followers.total,
     popularity |-> a.popularity, imageUrl |-> ImageUrl(v, a)]

\* for (const group of results) for (const artist of group): the artists in
\* the order the loops visit them, slots lo..hi.
RECURSIVE Visited(_, _, _)
Visited(results, lo, hi) ==
    IF lo > hi THEN <<>>
    ELSE IF lo = hi THEN results[lo].items
    ELSE LET mid == (lo + hi) \div 2
         IN  Visited(results, lo, mid) \o Visited(results, mid + 1, hi)

\* Mutant: an array pushed to instead of a Map keyed by id.
MapValuesPushed(v, visited) ==
    LET Accepted(a) == Accept(v, a)
        accepted == SelectSeq(visited, Accepted)
    IN  [i \in 1..Len(accepted) |-> ArtistRecord(v, accepted[i])] \o <<>>

\* Mutant: the record is set only when the Map does not have the id yet.
MapValuesFirstWins(v, visited) ==
    LET Accepted(a) == Accept(v, a)
        accepted == SelectSeq(visited, Accepted)
        n == Len(accepted)
        recs == [i \in 1..n |-> ArtistRecord(v, accepted[i])] \o <<>>
        IsFirst(i) == \A j \in 1..(i - 1) : recs[j].id # recs[i].id
        firsts == SelectSeq([i \in 1..n |-> i], IsFirst)
    IN  [k \in 1..Len(firsts) |-> recs[firsts[k]]] \o <<>>

\* Array.from(allArtistsMap.values()) after allArtistsMap.set(artist.id, record)
\* has run for every accepted artist in visiting order.  A Map iterates its keys
\* in the order they were first inserted, and a set() on a key that is there
\* replaces the value and keeps the place: each id stands where its first
\* accepted occurrence put it and holds the record of its last one.
MapValues(v, visited) ==
    LET Accepted(a) == Accept(v, a)
        accepted == SelectSeq(visited, Accepted)
        n == Len(accepted)
        recs == [i \in 1..n |-> ArtistRecord(v, accepted[i])] \o <<>>
        IsFirst(i) == \A j \in 1..(i - 1) : recs[j].id # recs[i].id
        firsts == SelectSeq([i \in 1..n |-> i], IsFirst)
        LastOf(i) == CHOOSE j \in i..n :
                        /\ recs[j].id = recs[i].id
                        /\ \A l \in (j + 1)..n : recs[l].id # recs[i].id
    IN  [k \in 1..Len(firsts) |-> recs[LastOf(firsts[k])]] \o <<>>

\* What makes the loops of getRankedArtists throw a TypeError: a slot that is
\* not iterable, or an item that is null.  getArtistsRanking never has either.
Throws(v, results) ==
    /\ v = "index"
    /\ \E g \in 1..Len(results) :
          \/ results[g].t = "undefined"
          \/ \E i \in 1..Len(results[g].items) : results[g].items[i].t = "null"

\* Mutant: the comparator the other way round, an ascending sort.
CompareAscending(a, b) == a.popularity.n - b.popularity.n

\* (a, b) => b.popularity - a.popularity
Compare(a, b) == b.popularity.n - a.popularity.n

\* Mutant: the sort forgotten.
SortNothing(s) == s

\* Array.prototype.sort(Compare), which is stable: what compares before the
\* first element, then what compares equal to it (itself included) in the
\* order it had, then what compares after it.
RECURSIVE SortByPopularity(_)
SortByPopularity(s) ==
    IF Len(s) <= 1 THEN s
    ELSE LET Before(x) == Compare(x, s[1]) < 0
             Same(x) == Compare(x, s[1]) = 0
             After(x) == Compare(x, s[1]) > 0
         IN  SortByPopularity(SelectSeq(s, Before)) \o SelectSeq(s, Same)
                 \o SortByPopularity(SelectSeq(s, After))

\* Mutant: the slice forgotten.
SliceNothing(s, k) == s

\* uniqueArtists.slice(0, RANKING_SIZE)
Slice(s, k) == SubSeq(s, 1, IF Len(s) < k THEN Len(s) ELSE k)

\* Array.from(allArtistsMap.values()), sorted and cut.
Aggregate(v, results) ==
    LET visited == Visited(results, 1, Len(results))
    IN  Slice(SortByPopularity(MapValues(v, visited)), RANKING_SIZE)


(***************************************************************************)
(* Bounds of the model.                                                    *)
(***************************************************************************)
MaxRequests == 2     \* requests that arrive in one run (they may all overlap)
MaxTicks == 1        \* clock advances in one run
Overflow == 3        \* artists beyond RANKING_SIZE in the largest upstream answer

\* Date.now() when the process starts, and the amounts the clock advances by:
\* the refresh threshold, and the cache lifetime.
Epoch == 10 * CACHE_LIFETIME
ClockSteps == {TOKEN_REFRESH_THRESHOLD * 1000, CACHE_LIFETIME}

\* One more advance, for the runs that take one request at a time: it brings a
\* token issued for an hour to the start of its refresh threshold.
LateSteps == {CACHE_LIFETIME - TOKEN_REFRESH_THRESHOLD * 1000}

\* expires_in (seconds) of a credential-exchange response, and the access_token
\* of the n-th one.
ExpiresIn == {3600}
IssuedToken(n) == Str("token" \o ToString(n))

(***************************************************************************)
(* Upstream answers.  Fields hold the types the catalog API documents      *)
(* (popularity 0..100, followers.total >= 0, url a string); any field may  *)
(* be absent, an item may be null and a request may fail.                  *)
(***************************************************************************)
Pics(tag) == Images(<<Img(Num(640), Str(tag \o "-640")), Img(Num(64), Str(tag \o "-64"))>>)

ArtistA == RawArtist(Str("A"), Str("Artist A"), Followers(Num(1000)), Num(90), Pics("A"))
ArtistB == RawArtist(Str("B"), Str("Artist B"), Followers(Num(500)), Num(95), Pics("B"))
\* The same id as ArtistA in a later page, with other values.
ArtistA2 == RawArtist(Str("A"), Str("Artist A (live)"), Followers(Num(1001)), Num(96), Pics("A2"))
\* Ties with ArtistA on popularity; nobody follows it yet.
ArtistC == RawArtist(Str("C"), Str("Artist C"), Followers(Num(0)), Num(90), Pics("C"))
ArtistD == RawArtist(Str("D"), Str("Artist D"), Followers(Num(7)), Num(0),
                     Images(<<Img(Num(300), Str("D-300"))>>))
\* Partial records.
NoId == RawArtist(Undefined, Str("No id"), Followers(Num(5)), Num(99), Pics("X1"))
NoName == RawArtist(Str("X2"), Undefined, Followers(Num(5)), Num(99), Pics("X2"))
NoFollowersObj == RawArtist(Str("X3"), Str("No followers"), NoFollowers, Num(99), Pics("X3"))
NoTotal == RawArtist(Str("X4"), Str("No total"), Followers(Undefined), Num(99), Pics("X4"))
NoPopularity == RawArtist(Str("X5"), Str("No popularity"), Followers(Num(5)), Undefined, Pics("X5"))
TextPopularity == RawArtist(Str("X6"), Str("Text popularity"), Followers(Num(5)), Str("99"), Pics("X6"))
NoImagesField == RawArtist(Str("X7"), Str("No images"), Followers(Num(5)), Num(99), NoImages)
EmptyImages == RawArtist(Str("X8"), Str("Empty images"), Followers(Num(5)), Num(99), Images(<<>>))
NoUrl == RawArtist(Str("X9"), Str("No url"), Followers(Num(5)), Num(99),
                   Images(<<Img(Num(64), Undefined)>>))

\* The i-th artist of a large answer: distinct ids, popularities all over 0..100.
BulkArtist(i) ==
    RawArtist(Str("bulk" \o ToString(i)), Str("Bulk " \o ToString(i)),
              Followers(Num(10 + i)), Num((i * 37) % 101),
              Images(<<Img(Num(64), Str("bulk" \o ToString(i) \o "-64"))>>))

\* Page k (from 1) of the large answer, SEARCH_LIMIT artists a page.
BulkPage(k) ==
    LET total == RANKING_SIZE + Overflow
        first == (k - 1) * SEARCH_LIMIT + 1
        last == IF k * SEARCH_LIMIT < total THEN k * SEARCH_LIMIT ELSE total
    IN  Page([j \in 1..(last - first + 1) |-> BulkArtist(first + j - 1)])

BulkPages ==
    [k \in 1..((RANKING_SIZE + Overflow + SEARCH_LIMIT - 1) \div SEARCH_LIMIT) |-> BulkPage(k)]

\* What the upstream may answer to one fan-out: the pages of the first slots
\* (every other slot fails).  The core answers are those every run may get.
CoreAnswers ==
    << <<>>,                                                \* every request fails
       <<Page(<<ArtistA>>), Page(<<ArtistB>>)>>,
       <<Page(<<ArtistA, ArtistB>>), PageError, Page(<<ArtistA2, ArtistC>>)>>,
       <<Page(<<ArtistA, NullArtist>>)>>
    >>

\* More answers, for the runs that take one request at a time.
OtherAnswers ==
    << BulkPages \o <<Page(<<BulkArtist(2), ArtistB>>)>>,
       <<Page(<<NoId, NoName, ArtistD, NoFollowersObj>>), PageNoArtists,
         Page(<<NoPopularity, TextPopularity, NoImagesField, EmptyImages, ArtistA>>)>>,
       <<Page(<<NoTotal, ArtistB>>)>>,
       <<Page(<<ArtistB, NoUrl>>)>>,
       <<PageNoItems, Page(<<ArtistB>>)>>,
       <<Page(<<ArtistC, ArtistD, ArtistA>>), Page(<<ArtistD, ArtistC>>)>>,
       <<Page(<<ArtistA, ArtistD>>), Page(<<ArtistC>>)>>
    >>

Payloads == CoreAnswers \o OtherAnswers

\* What the upstream may answer to a lookup's search (limit 1).
Found(a) == [kind |-> "found", artist |-> a]
SearchError == [kind |-> "error", artist |-> NullArtist]
SearchNoArtists == [kind |-> "noartists", artist |-> NullArtist]
SearchEmpty == [kind |-> "empty", artist |-> NullArtist]
CoreOutcomes == <<SearchError, SearchNoArtists, SearchEmpty, Found(ArtistA)>>
SearchOutcomes ==
    CoreOutcomes \o <<Found(NoFollowersObj), Found(BulkArtist(30)), Found(BulkArtist(49))>>

\* The name parameter of a lookup: missing or empty, blank, or a name.
Names == {"", " ", "Artist A"}


(***************************************************************************)
(* The process state.                                                      *)
(***************************************************************************)
\* cachedRanking: null, or an array of records.
NullRanking == [t |-> "null", items |-> <<>>]
Ranking(items) == [t |-> "object", items |-> items]
NoRanking == [t |-> "undefined", items |-> <<>>]

\* A request: where it is suspended and the locals it will read when resumed.
\*   pc       "free" not arrived yet, "token" awaiting the credential
\*            exchange, "search" awaiting the lookup's search, "fanout"
\*            awaiting Promise.all, "done" answered
\*   cont     what the caller of getSpotifyAccessToken does with the token
\*   tokNow   `now` of getSpotifyAccessToken
\*   reqNow   `now` of the /api/artists-ranking route of index
\*   artist   the artist the lookup's search found
\*   fanouts  fan-outs this request has issued
\*   pending  search requests of its fan-out that have not settled yet
FreeRequest ==
    [kind |-> "none", pc |-> "free", cont |-> "none", tokNow |-> 0, reqNow |-> 0,
     artist |-> NullArtist, fanouts |-> 0, pending |-> 0]
DoneRequest == [FreeRequest EXCEPT !.pc = "done"]
NewRequest(kind) == [FreeRequest EXCEPT !.kind = kind]

\* The body of a lookup's answer.
NoLookup ==
    [id |-> Undefined, name |-> Undefined, popularity |-> Undefined,
     followers |-> Undefined, imageUrl |-> Undefined, rankInTop100 |-> 0]

\* What a step sent.
\*   req, kind, op   the request that ran, its kind and the handler step
\*   name            the name parameter of an arriving lookup
\*   exchanges       credential-exchange POSTs issued
\*   searches        upstream search GETs issued
\*   token           what getSpotifyAccessToken returned (undefined: no return)
\*   status          the HTTP status answered (0: nothing answered)
\*   ranking, lookup the body answered
\*   fanouts         fan-outs the answered request issued in all
\*   aggregated      the aggregation loops ran in this step
\*   answer          which of Payloads the fan-out settled with (0: none did)
\*   order           which of Completions its requests completed in (0: none did)
Quiet ==
    [req |-> 0, kind |-> "none", op |-> "none", name |-> "", exchanges |-> 0,
     searches |-> 0, token |-> Undefined, status |-> 0, ranking |-> NoRanking,
     lookup |-> NoLookup, fanouts |-> 0, aggregated |-> FALSE, answer |-> 0,
     order |-> 0]

Init ==
    /\ variant \in {"handler", "server", "index"}
    /\ credsConfigured \in BOOLEAN
    /\ clock = Epoch
    /\ ticks = 0
    /\ started = 0
    /\ issued = 0
    /\ spotifyAccessToken = JsNull
    /\ tokenExpiryTime = 0
    /\ cachedRanking = NullRanking
    /\ lastCacheTime = 0
    /\ req = [k \in 1..MaxRequests |-> FreeRequest]
    /\ ev = Quiet

\* Mutant: the token reused until it expires, no threshold.
TokenFreshUntilExpiry(now) == Truthy(spotifyAccessToken) /\ now < tokenExpiryTime

\* if (spotifyAccessToken && now < tokenExpiryTime - threshold)
TokenFresh(now) ==
    Truthy(spotifyAccessToken) /\ now < tokenExpiryTime - ThresholdMs(variant)

\* Mutant: the comparison the other way round.
CacheFreshInverted(now) ==
    cachedRanking.t = "object" /\ now > lastCacheTime + CACHE_LIFETIME

\* Mutant: the age of the stored Ranking never looked at.
CacheFreshForever(now) == cachedRanking.t = "object"

\* Mutant: a cache test that takes an empty array for no Ranking.
CacheFreshNonEmpty(now) ==
    /\ cachedRanking.t = "object"
    /\ Len(cachedRanking.items) > 0
    /\ now < lastCacheTime + CACHE_LIFETIME

\* if (cachedRanking && now < lastCacheTime + CACHE_LIFETIME)
CacheFresh(now) ==
    cachedRanking.t = "object" /\ now < lastCacheTime + CACHE_LIFETIME

(***************************************************************************)
(* The synchronous stretches of the handlers.  Each sets req' and ev'; the *)
(* action that uses it sets the module variables.  `r` is the request as   *)
(* it stands, `e` the step's event so far.                                 *)
(***************************************************************************)
\* res.status(..).json(..) / res.json(..): the request is answered.
Answer(k, r, e, status, ranking, lookup) ==
    /\ req' = [req EXCEPT ![k] = DoneRequest]
    /\ ev' = [e EXCEPT !.status = status, !.ranking = ranking, !.lookup = lookup,
                       !.fanouts = r.fanouts]

\* Mutant: a recomputation that finds another one's fan-out in flight awaits
\* that one's requests and sends none.
HaveTokenShared(k, r, e, cont, tok) ==
    IF cont = "search"
    THEN /\ req' = [req EXCEPT ![k] = [r EXCEPT !.pc = "search", !.cont = "none"]]
         /\ ev' = [e EXCEPT !.token = tok, !.searches = 1]
    ELSE LET sent == IF \E j \in 1..MaxRequests : req[j].pc = "fanout"
                     THEN 0 ELSE NumSlots(variant)
         IN  /\ req' = [req EXCEPT ![k] =
                            [r EXCEPT !.pc = "fanout", !.cont = "none", !.fanouts = @ + 1,
                                      !.pending = sent]]
             /\ ev' = [e EXCEPT !.token = tok, !.searches = sent]

\* The caller has its token: the lookup sends its search, the recomputation
\* pushes one request per (query, offset) and awaits Promise.all.
HaveToken(k, r, e, cont, tok) ==
    IF cont = "search"
    THEN /\ req' = [req EXCEPT ![k] = [r EXCEPT !.pc = "search", !.cont = "none"]]
         /\ ev' = [e EXCEPT !.token = tok, !.searches = 1]
    ELSE /\ req' = [req EXCEPT ![k] =
                       [r EXCEPT !.pc = "fanout", !.cont = "none", !.fanouts = @ + 1,
                                 !.pending = NumSlots(variant)]]
         /\ ev' = [e EXCEPT !.token = tok, !.searches = NumSlots(variant)]

\* Mutant: a caller that finds an exchange in flight waits for it and issues
\* none of its own.
GetTokenCoalesced(k, r, e, cont) ==
    IF TokenFresh(clock)
    THEN HaveToken(k, r, e, cont, spotifyAccessToken)
    ELSE IF ~credsConfigured
    THEN Answer(k, r, e, 500, NoRanking, NoLookup)
    ELSE /\ req' = [req EXCEPT ![k] = [r EXCEPT !.pc = "token", !.cont = cont, !.tokNow = clock]]
         /\ ev' = [e EXCEPT !.exchanges =
                       IF \E j \in 1..MaxRequests : req[j].pc = "token" THEN 0 ELSE 1]

\* getSpotifyAccessToken() up to its await, and its caller's catch.
GetToken(k, r, e, cont) ==
    IF TokenFresh(clock)
    THEN HaveToken(k, r, e, cont, spotifyAccessToken)
    ELSE IF ~credsConfigured
    THEN Answer(k, r, e, 500, NoRanking, NoLookup)
    ELSE /\ req' = [req EXCEPT ![k] = [r EXCEPT !.pc = "token", !.cont = cont, !.tokNow = clock]]
         /\ ev' = [e EXCEPT !.exchanges = 1]

\* Mutant: a findIndex that counts positions from 1.
FindIndexFromOne(items, id) ==
    LET at == {i \in 1..Len(items) : items[i].id = id}
    IN  IF at = {} THEN -1 ELSE CHOOSE i \in at : \A j \in at : i <= j

\* topArtists.findIndex(a => a.id === artist.id) + 1
FindIndex(items, id) ==
    LET at == {i \in 1..Len(items) : items[i].id = id}
    IN  IF at = {} THEN -1 ELSE (CHOOSE i \in at : \A j \in at : i <= j) - 1

\* artist.popularity ?? 0: the default replaces null and undefined only.
OrZero(v) == IF v.t \in {"undefined", "null"} THEN Num(0) ELSE v

\* artist.images?.[0]?.url || 'https://via.placeholder.com/150'
FirstUrlOrPlaceholder(a) ==
    IF a.images.t = "object" /\ Len(a.images.items) > 0 /\ Truthy(a.images.items[1].url)
    THEN a.images.items[1].url
    ELSE Str("https://via.placeholder.com/150")

\* The body of the lookups of handler and server.
LookupBody(a, rank) ==
    [id |-> a.id, name |-> a.name, popularity |-> OrZero(a.popularity),
     followers |-> IF a.followers.t = "object" THEN OrZero(a.followers.total) ELSE Num(0),
     imageUrl |-> FirstUrlOrPlaceholder(a), rankInTop100 |-> rank]

\* The body of the lookup of index; it reads followers.total and images.length
\* without a guard.
IndexLookupThrows(a) == a.followers.t # "object" \/ a.images.t # "object"
IndexLookupBody(a, rank) ==
    [id |-> a.id, name |-> a.name, popularity |-> a.popularity,
     followers |-> a.followers.total,
     imageUrl |-> IF Len(a.images.items) > 0 THEN ChosenImage(a.images.items).url
                  ELSE Str("https://via.placeholder.com/150?text=No+Image"),
     rankInTop100 |-> rank]

\* What server does with the value of getArtistsRanking(): the ranking route
\* answers it, the lookup ranks its artist in it.
Deliver(k, r, e, items) ==
    IF r.kind = "ranking"
    THEN Answer(k, r, e, 200, Ranking(items), NoLookup)
    ELSE LET rank == FindIndex(items, r.artist.id) + 1
         IN  Answer(k, r, e, 200, NoRanking,
                    LookupBody(r.artist, IF rank > 0 THEN rank ELSE -1))

\* Mutant: getArtistsRanking() without its cache test.
GetArtistsRankingUncached(k, r, e) == GetToken(k, r, e, "fanout")

\* getArtistsRanking() of server up to its first await.
GetArtistsRanking(k, r, e) ==
    IF CacheFresh(clock)
    THEN Deliver(k, r, e, cachedRanking.items)
    ELSE GetToken(k, r, e, "fanout")


(***************************************************************************)
(* The aggregation of every upstream answer, computed once.                *)
(***************************************************************************)
RECURSIVE ThrownUpTo(_, _)
ThrownUpTo(v, n) ==
    IF n = 0 THEN <<>>
    ELSE Append(ThrownUpTo(v, n - 1), Throws(v, Results(v, Payloads[n])))

RECURSIVE AggregatedUpTo(_, _)
AggregatedUpTo(v, n) ==
    IF n = 0 THEN <<>>
    ELSE Append(AggregatedUpTo(v, n - 1),
                IF Throws(v, Results(v, Payloads[n])) THEN <<>>
                ELSE Aggregate(v, Results(v, Payloads[n])))

Thrown == [server |-> ThrownUpTo("server", Len(Payloads)),
           index |-> ThrownUpTo("index", Len(Payloads))]
Aggregated == [server |-> AggregatedUpTo("server", Len(Payloads)),
               index |-> AggregatedUpTo("index", Len(Payloads))]

\* The orders in which the requests of one fan-out complete: the order they
\* were issued in, and the reverse of it.
Completions(v) ==
    <<[i \in 1..NumSlots(v) |-> i], [i \in 1..NumSlots(v) |-> NumSlots(v) + 1 - i]>>

\* Mutant: every request pushes its items onto the results when it completes.
PromiseAllPushed(settled, order) == [j \in 1..Len(settled) |-> settled[order[j]]]

\* await Promise.all(searchPromises): element i of the array is the value of
\* promise i, whatever order the promises settled in.
PromiseAll(settled, order) == [i \in 1..Len(settled) |-> settled[i]]

\* What the aggregation makes of every upstream answer, for completion order o.
RECURSIVE AggregatedInUpTo(_, _, _)
AggregatedInUpTo(v, o, n) ==
    IF n = 0 THEN <<>>
    ELSE Append(AggregatedInUpTo(v, o, n - 1),
                IF Throws(v, Results(v, Payloads[n])) THEN <<>>
                ELSE Aggregate(v, PromiseAll(Results(v, Payloads[n]), Completions(v)[o])))

AggregatedIn ==
    [server |-> <<AggregatedInUpTo("server", 1, Len(Payloads)),
                  AggregatedInUpTo("server", 2, Len(Payloads))>>,
     index |-> <<AggregatedInUpTo("index", 1, Len(Payloads)),
                 AggregatedInUpTo("index", 2, Len(Payloads))>>]

(***************************************************************************)
(* Actions: one per handler stretch between two awaits.                    *)
(***************************************************************************)
Event(k, kind, op) == [Quiet EXCEPT !.req = k, !.kind = kind, !.op = op]

\* Time passes.
Tick(d) ==
    /\ ticks < MaxTicks
    /\ clock' = clock + d
    /\ ticks' = ticks + 1
    /\ ev' = [Quiet EXCEPT !.op = "tick"]
    /\ UNCHANGED <<variant, credsConfigured, started, issued, spotifyAccessToken,
                   tokenExpiryTime, cachedRanking, lastCacheTime, req>>

\* GET /api/artists-ranking of server arrives.
ServerRankingRequest ==
    /\ variant = "server"
    /\ started < MaxRequests
    /\ started' = started + 1
    /\ GetArtistsRanking(started + 1, NewRequest("ranking"),
                         Event(started + 1, "ranking", "arrive"))
    /\ UNCHANGED <<variant, credsConfigured, clock, ticks, issued, spotifyAccessToken,
                   tokenExpiryTime, cachedRanking, lastCacheTime>>

\* GET /api/artists-ranking of index arrives.
IndexRankingRequest ==
    /\ variant = "index"
    /\ started < MaxRequests
    /\ started' = started + 1
    /\ LET k == started + 1
           r == [NewRequest("ranking") EXCEPT !.reqNow = clock]
           e == Event(k, "ranking", "arrive")
       IN  IF CacheFresh(clock)
           THEN Answer(k, r, e, 200, cachedRanking, NoLookup)
           ELSE GetToken(k, r, e, "fanout")
    /\ UNCHANGED <<variant, credsConfigured, clock, ticks, issued, spotifyAccessToken,
                   tokenExpiryTime, cachedRanking, lastCacheTime>>

\* /api/search-artist arrives (the express routes see GET only).
LookupRequest(method, name) ==
    /\ variant # "handler" => method = "GET"
    /\ started < MaxRequests
    /\ started' = started + 1
    /\ LET k == started + 1
           r == NewRequest("lookup")
           e == [Event(k, "lookup", "arrive") EXCEPT !.name = name]
       IN  IF method # "GET" THEN Answer(k, r, e, 405, NoRanking, NoLookup)
           ELSE IF name = "" THEN Answer(k, r, e, 400, NoRanking, NoLookup)
           ELSE GetToken(k, r, e, "search")
    /\ UNCHANGED <<variant, credsConfigured, clock, ticks, issued, spotifyAccessToken,
                   tokenExpiryTime, cachedRanking, lastCacheTime>>

\* Mutant: the token is stored when the response arrives, the expiry is left
\* for later.
ExchangeOkTokenOnly(k, sec) ==
    /\ req[k].pc = "token"
    /\ issued' = issued + 1
    /\ spotifyAccessToken' = IssuedToken(issued + 1)
    /\ tokenExpiryTime' = tokenExpiryTime
    /\ HaveToken(k, req[k], Event(k, req[k].kind, "exchange"), req[k].cont,
                 IssuedToken(issued + 1))
    /\ UNCHANGED <<variant, credsConfigured, clock, ticks, started, cachedRanking,
                   lastCacheTime>>

\* The credential exchange answers { access_token, expires_in }; the accounts
\* service issues a token it has not issued before.
ExchangeOk(k, sec) ==
    /\ req[k].pc = "token"
    /\ issued' = issued + 1
    /\ spotifyAccessToken' = IssuedToken(issued + 1)
    /\ tokenExpiryTime' = req[k].tokNow + sec * 1000
    /\ HaveToken(k, req[k], Event(k, req[k].kind, "exchange"), req[k].cont,
                 IssuedToken(issued + 1))
    /\ UNCHANGED <<variant, credsConfigured, clock, ticks, started, cachedRanking,
                   lastCacheTime>>

\* Mutant: the catch block resets the cache.
ExchangeFailClearing(k) ==
    /\ req[k].pc = "token"
    /\ Answer(k, req[k], Event(k, req[k].kind, "exchange"), 500, NoRanking, NoLookup)
    /\ cachedRanking' = NullRanking
    /\ lastCacheTime' = 0
    /\ UNCHANGED <<variant, credsConfigured, clock, ticks, started, issued,
                   spotifyAccessToken, tokenExpiryTime>>

\* Mutant: the failed exchange forgets the stored Credential.
ExchangeFailForgetting(k) ==
    /\ req[k].pc = "token"
    /\ Answer(k, req[k], Event(k, req[k].kind, "exchange"), 500, NoRanking, NoLookup)
    /\ spotifyAccessToken' = JsNull
    /\ tokenExpiryTime' = 0
    /\ UNCHANGED <<variant, credsConfigured, clock, ticks, started, issued,
                   cachedRanking, lastCacheTime>>

\* The credential exchange fails: axios.post rejects.
ExchangeFail(k) ==
    /\ req[k].pc = "token"
    /\ Answer(k, req[k], Event(k, req[k].kind, "exchange"), 500, NoRanking, NoLookup)
    /\ UNCHANGED <<variant, credsConfigured, clock, ticks, started, issued, spotifyAccessToken,
                   tokenExpiryTime, cachedRanking, lastCacheTime>>

\* The lookup's search settles.
SearchSettle(k, o) ==
    /\ req[k].pc = "search"
    /\ LET r == req[k]
           e == Event(k, r.kind, "search")
           a == o.artist
       IN  CASE variant = "handler" ->
                  IF o.kind = "error" THEN Answer(k, r, e, 500, NoRanking, NoLookup)
                  ELSE IF o.kind # "found" THEN Answer(k, r, e, 404, NoRanking, NoLookup)
                  ELSE Answer(k, r, e, 200, NoRanking, LookupBody(a, -1))
             [] variant = "server" ->
                  IF o.kind = "error" THEN Answer(k, r, e, 500, NoRanking, NoLookup)
                  ELSE IF o.kind # "found" THEN Answer(k, r, e, 404, NoRanking, NoLookup)
                  ELSE GetArtistsRanking(k, [r EXCEPT !.artist = a], e)
             [] OTHER ->
                  IF o.kind \in {"error", "noartists"}
                  THEN Answer(k, r, e, 500, NoRanking, NoLookup)
                  ELSE IF o.kind # "found" THEN Answer(k, r, e, 404, NoRanking, NoLookup)
                  ELSE IF IndexLookupThrows(a) THEN Answer(k, r, e, 500, NoRanking, NoLookup)
                  ELSE LET rank == IF cachedRanking.t = "object"
                                   THEN FindIndex(cachedRanking.items, a.id) + 1 ELSE -1
                       IN  Answer(k, r, e, 200, NoRanking,
                                  IndexLookupBody(a, IF rank # 0 THEN rank ELSE -1))
    /\ UNCHANGED <<variant, credsConfigured, clock, ticks, started, issued, spotifyAccessToken,
                   tokenExpiryTime, cachedRanking, lastCacheTime>>

\* Mutant: the fan-out awaited with a combinator that settles with the first
\* of its promises.
FirstSettled(r) == r.pending < NumSlots(variant)

\* await Promise.all(searchPromises) resumes: every promise ends in a catch
\* that returns [], so none rejects and Promise.all fulfils when the last of
\* them has settled.
AllSettled(r) == r.pending = 0

\* n of the search requests a fan-out is waiting for get their response or
\* fail: their promises settle, the handler is not resumed.
SearchResponse(k, n) ==
    /\ req[k].pc = "fanout"
    /\ n \in 1..req[k].pending
    /\ req' = [req EXCEPT ![k].pending = @ - n]
    /\ ev' = Event(k, req[k].kind, "response")
    /\ UNCHANGED <<variant, credsConfigured, clock, ticks, started, issued, spotifyAccessToken,
                   tokenExpiryTime, cachedRanking, lastCacheTime>>

\* Mutant: cachedRanking assigned the Map's values, before the sort and the
\* slice.
ServerFanOutSettleEarly(k, p, o) ==
    /\ variant = "server"
    /\ req[k].pc = "fanout"
    /\ AllSettled(req[k])
    /\ LET results == PromiseAll(Results(variant, Payloads[p]), Completions(variant)[o])
           values == MapValues(variant, Visited(results, 1, NumSlots(variant)))
       IN  /\ cachedRanking' = Ranking(values)
           /\ lastCacheTime' = clock
           /\ Deliver(k, req[k],
                      [Event(k, req[k].kind, "fanout") EXCEPT !.aggregated = TRUE,
                                                              !.answer = p, !.order = o],
                      values)
    /\ UNCHANGED <<variant, credsConfigured, clock, ticks, started, issued, spotifyAccessToken,
                   tokenExpiryTime>>

\* Promise.all settles with the answers of payload p, its requests having
\* completed in order o; server aggregates, stores and returns in one stretch.
ServerFanOutSettle(k, p, o) ==
    /\ variant = "server"
    /\ req[k].pc = "fanout"
    /\ AllSettled(req[k])
    /\ cachedRanking' = Ranking(AggregatedIn[variant][o][p])
    /\ lastCacheTime' = clock
    /\ Deliver(k, req[k],
               [Event(k, req[k].kind, "fanout") EXCEPT !.aggregated = TRUE, !.answer = p,
                                                       !.order = o],
               AggregatedIn[variant][o][p])
    /\ UNCHANGED <<variant, credsConfigured, clock, ticks, started, issued, spotifyAccessToken,
                   tokenExpiryTime>>

\* Promise.all settles in getRankedArtists of index; the route stores what it
\* returns under the `now` it read on arrival, or answers 500 when it threw.
IndexFanOutSettle(k, p, o) ==
    /\ variant = "index"
    /\ req[k].pc = "fanout"
    /\ AllSettled(req[k])
    /\ LET r == req[k]
           e == [Event(k, r.kind, "fanout") EXCEPT !.aggregated = TRUE, !.answer = p,
                                                   !.order = o]
       IN  IF Thrown[variant][p]
           THEN /\ Answer(k, r, e, 500, NoRanking, NoLookup)
                /\ UNCHANGED <<cachedRanking, lastCacheTime>>
           ELSE /\ cachedRanking' = Ranking(AggregatedIn[variant][o][p])
                /\ lastCacheTime' = r.reqNow
                /\ Answer(k, r, e, 200, Ranking(AggregatedIn[variant][o][p]), NoLookup)
    /\ UNCHANGED <<variant, credsConfigured, clock, ticks, started, issued, spotifyAccessToken,
                   tokenExpiryTime>>

Next ==
    \/ \E d \in ClockSteps : Tick(d)
    \/ ServerRankingRequest
    \/ IndexRankingRequest
    \/ \E method \in {"GET", "POST"}, name \in Names : LookupRequest(method, name)
    \/ \E k \in 1..MaxRequests, sec \in ExpiresIn : ExchangeOk(k, sec)
    \/ \E k \in 1..MaxRequests : ExchangeFail(k)
    \/ \E k \in 1..MaxRequests, i \in 1..Len(CoreOutcomes) : SearchSettle(k, CoreOutcomes[i])
    \/ \E k \in 1..MaxRequests : SearchResponse(k, req[k].pending)
    \/ \E k \in 1..MaxRequests, p \in 1..Len(CoreAnswers) : ServerFanOutSettle(k, p, 1)
    \/ \E k \in 1..MaxRequests, p \in 1..Len(CoreAnswers) : IndexFanOutSettle(k, p, 1)

\* Overlapping ranking and lookup requests, the core upstream answers, the
\* responses of a fan-out arriving together.
Spec == Init /\ [][Next]_vars

\* No request is in flight.
Idle == \A k \in 1..MaxRequests : req[k].pc \in {"free", "done"}

SerialNext ==
    \/ \E d \in ClockSteps \cup LateSteps : Tick(d)
    \/ Idle /\ ServerRankingRequest
    \/ Idle /\ IndexRankingRequest
    \/ Idle /\ \E method \in {"GET", "POST"}, name \in Names : LookupRequest(method, name)
    \/ \E k \in 1..MaxRequests, sec \in ExpiresIn : ExchangeOk(k, sec)
    \/ \E k \in 1..MaxRequests : ExchangeFail(k)
    \/ \E k \in 1..MaxRequests, i \in 1..Len(SearchOutcomes) : SearchSettle(k, SearchOutcomes[i])
    \/ \E k \in 1..MaxRequests : \E n \in {1, req[k].pending} : SearchResponse(k, n)
    \/ \E k \in 1..MaxRequests, p \in 1..Len(Payloads), o \in DOMAIN Completions(variant) :
           ServerFanOutSettle(k, p, o)
    \/ \E k \in 1..MaxRequests, p \in 1..Len(Payloads), o \in DOMAIN Completions(variant) :
           IndexFanOutSettle(k, p, o)

\* One request at a time, every upstream answer, the responses of a fan-out
\* arriving one by one or together.
SerialSpec == Init /\ [][SerialNext]_vars

(***************************************************************************)
(* Properties.                                                             *)
(***************************************************************************)
\* The stored Ranking and the Ranking the last step answered.
Stored == cachedRanking.items
Answered == ev.ranking.items

\* The last step stored the aggregation of upstream answer p.
StoredAnswer(p) == ev.op = "fanout" /\ ev.status = 200 /\ ev.answer = p

\* The artists the aggregator accepted from upstream answer p, in visiting order.
AcceptedOf(p) ==
    LET Accepted(a) == Accept(variant, a)
    IN  SelectSeq(Visited(Results(variant, Payloads[p]), 1, NumSlots(variant)), Accepted)

\* The upstream answer with more than RANKING_SIZE artists.
BulkAnswer == Len(CoreAnswers) + 1

\* C1: the stored Ranking and every Ranking answered have at most 100 entries.
C1_AtMost100 == Len(Stored) <= 100 /\ Len(Answered) <= 100

\* C1 witness: an upstream answer with more than 100 accepted unique artists
\* was aggregated, stored and answered, cut to 100.
C1_Witness ==
    /\ StoredAnswer(BulkAnswer)
    /\ Cardinality({AcceptedOf(BulkAnswer)[i].id.s : i \in 1..Len(AcceptedOf(BulkAnswer))}) > 100
    /\ Len(Stored) = 100
    /\ Len(Answered) = 100

NonIncreasing(items) ==
    \A i \in 1..(Len(items) - 1) : items[i].popularity.n >= items[i + 1].popularity.n

\* C2: in the stored and in every answered Ranking the popularity never
\* increases from one position to the next.
C2_SortedDescending == NonIncreasing(Stored) /\ NonIncreasing(Answered)

\* C2 witness: the upstream sent A (90) before B (95) and B is stored first.
C2_Witness ==
    /\ StoredAnswer(2)
    /\ Len(Stored) = 2
    /\ Stored[1].id = Str("B") /\ Stored[2].id = Str("A")
    /\ Answered = Stored

DistinctIds(items) ==
    \A i, j \in 1..Len(items) : i # j => items[i].id # items[j].id

\* C3: no two entries of the stored or of an answered Ranking have the same id.
C3_UniqueById == DistinctIds(Stored) /\ DistinctIds(Answered)

\* C3 witness: id A came in two groups with different popularities (90, 96)
\* and is stored once.
C3_Witness ==
    /\ StoredAnswer(3)
    /\ Cardinality({i \in 1..Len(AcceptedOf(3)) : AcceptedOf(3)[i].id = Str("A")}) = 2
    /\ Cardinality({i \in 1..Len(Stored) : Stored[i].id = Str("A")}) = 1

\* The popularity of the last accepted occurrence of id x.
LastPopularity(acc, x) ==
    LET last == CHOOSE i \in 1..Len(acc) :
                    acc[i].id = x /\ \A j \in (i + 1)..Len(acc) : acc[j].id # x
    IN  acc[last].popularity.n

\* C4: what a recomputation stores is the top 100 by popularity of the
\* deduplicated accepted artists: its entries are accepted artists, an
\* accepted artist left out is no more popular than any entry, nothing is left
\* out when at most 100 were accepted, and [[A 90], [B 95]] gives [B, A].
C4_TopByPopularity ==
    (ev.op = "fanout" /\ ev.status = 200) =>
        LET acc == AcceptedOf(ev.answer)
            ids == {acc[i].id : i \in 1..Len(acc)}
            kept == {Stored[j].id : j \in 1..Len(Stored)}
        IN  /\ kept \subseteq ids
            /\ \A x \in ids \ kept :
                  \A j \in 1..Len(Stored) : LastPopularity(acc, x) <= Stored[j].popularity.n
            /\ Cardinality(ids) <= 100 => kept = ids
            /\ Cardinality(ids) > 100 => Len(Stored) = 100
            /\ ev.answer = 2 => <<Stored[1].id.s, Stored[2].id.s>> = <<"B", "A">>

\* C4 witness: more than 100 artists were accepted and some are left out.
C4_Witness ==
    /\ StoredAnswer(BulkAnswer)
    /\ \E i \in 1..Len(AcceptedOf(BulkAnswer)) :
          \A j \in 1..Len(Stored) : Stored[j].id # AcceptedOf(BulkAnswer)[i].id


\* The field holds a value: it is neither undefined nor null.
Present(v) == v.t \notin {"undefined", "null"}

Complete(rec) ==
    /\ Present(rec.id)
    /\ Present(rec.name)
    /\ rec.followers.t = "number"
    /\ rec.popularity.t = "number"
    /\ Present(rec.imageUrl)

\* C5: every record of the stored and of an answered Ranking has its id, name,
\* followers count, numeric popularity and image URL; a partial artist is never
\* stored with a field left undefined.
C5_RecordsComplete ==
    /\ \A i \in 1..Len(Stored) : Complete(Stored[i])
    /\ \A i \in 1..Len(Answered) : Complete(Answered[i])

InRange(rec) ==
    /\ rec.popularity.t = "number" /\ 0 <= rec.popularity.n /\ rec.popularity.n <= 100
    /\ rec.followers.t = "number" /\ rec.followers.n >= 0
    /\ rec.imageUrl.t = "string" /\ rec.imageUrl.s # ""

\* C6: every record built from an accepted artist has 0 <= popularity <= 100,
\* followers >= 0 and a non-empty imageUrl.
C6_FieldsInRange ==
    (ev.op = "fanout" /\ ev.status = 200) => \A i \in 1..Len(Stored) : InRange(Stored[i])

\* The stored Ranking is FRESH at the current time (1 hour is 3,600,000 ms).
FreshNow == cachedRanking.t = "object" /\ clock < lastCacheTime + 3600000

\* The step is the arrival of a request of this kind.
Arrival(kind) == ev'.op = "arrive" /\ ev'.kind = kind

\* C7: a ranking request that arrives while the stored Ranking is less than an
\* hour old issues no credential exchange and no search, answers the stored
\* Ranking and leaves the Ranking and computedAt as they are.
C7_FreshServedFromCache ==
    [][(Arrival("ranking") /\ FreshNow) =>
          /\ ev'.exchanges = 0
          /\ ev'.searches = 0
          /\ ev'.status = 200
          /\ ev'.ranking = cachedRanking
          /\ cachedRanking' = cachedRanking
          /\ lastCacheTime' = lastCacheTime
          /\ req'[ev'.req].pc = "done"]_vars

\* C7 witness: a ranking request was answered from the cache some time after a
\* recomputation had stored a Ranking that is not empty.
C7_Witness ==
    /\ ev.op = "arrive" /\ ev.kind = "ranking" /\ ev.status = 200
    /\ Len(Answered) > 0
    /\ clock > lastCacheTime
    /\ clock < lastCacheTime + 3600000

\* The request that took the step, and the size of one full fan-out.
Actor == ev'.req
FullFanOut == IF variant = "index" THEN 20 * 5 ELSE 15 * 3

\* C8 as stated: every ranking request that does not find a fresh Ranking ends
\* with one full fan-out and one aggregation done, its result stored and served.
C8_StaleAlwaysRecomputes ==
    (ev.kind = "ranking" /\ ev.status # 0 /\ ~(ev.op = "arrive" /\ ev.status = 200)) =>
        /\ ev.status = 200
        /\ ev.fanouts = 1
        /\ ev.aggregated
        /\ ev.ranking = cachedRanking

\* C8 amended: a ranking request that does not find a fresh Ranking serves
\* nothing from the cache and starts one recomputation: it asks for a token and,
\* once it has one, issues exactly one full fan-out; when the aggregation
\* returns, it stores the result with its computedAt (the store time in server,
\* the arrival time in index) and answers it.  When the token cannot be had or
\* the aggregation throws, it answers 500, having issued at most one fan-out,
\* and stores nothing.
C8_StaleRecomputesOnce ==
    [][/\ (Arrival("ranking") /\ ~FreshNow) =>
             /\ cachedRanking' = cachedRanking /\ lastCacheTime' = lastCacheTime
             /\ \/ ev'.status = 500 /\ ev'.exchanges = 0 /\ ev'.searches = 0
                \/ /\ ev'.status = 0 /\ ev'.exchanges = 1 /\ ev'.searches = 0
                   /\ req'[Actor].pc = "token" /\ req'[Actor].fanouts = 0
                \/ /\ ev'.status = 0 /\ ev'.exchanges = 0 /\ ev'.searches = FullFanOut
                   /\ req'[Actor].pc = "fanout" /\ req'[Actor].fanouts = 1
       /\ (ev'.kind = "ranking" /\ ev'.op = "exchange") =>
             /\ cachedRanking' = cachedRanking /\ lastCacheTime' = lastCacheTime
             /\ \/ ev'.status = 500 /\ ev'.searches = 0 /\ ev'.fanouts = 0
                \/ /\ ev'.status = 0 /\ ev'.searches = FullFanOut
                   /\ req'[Actor].pc = "fanout" /\ req'[Actor].fanouts = 1
       /\ (ev'.kind = "ranking" /\ ev'.op = "fanout") =>
             /\ ev'.fanouts = 1 /\ ev'.aggregated /\ ev'.searches = 0 /\ ev'.exchanges = 0
             /\ \/ /\ ev'.status = 200
                   /\ cachedRanking' = ev'.ranking
                   /\ ev'.ranking.t = "object"
                   /\ lastCacheTime' = IF variant = "index" THEN req[Actor].reqNow ELSE clock
                \/ /\ ev'.status = 500
                   /\ cachedRanking' = cachedRanking /\ lastCacheTime' = lastCacheTime
      ]_vars

\* C8 witness: an hour after a token was issued, a second ranking request has
\* recomputed, stored and answered a Ranking.
C8_Witness ==
    /\ ev.req = 2 /\ ev.kind = "ranking" /\ ev.op = "fanout" /\ ev.status = 200
    /\ ev.fanouts = 1
    /\ issued = 2
    /\ clock >= Epoch + 3600000
    /\ cachedRanking = ev.ranking

\* C9: a step that answers 500 (the token could not be had, or the aggregation
\* threw) leaves the stored Ranking and computedAt as they were and touches no
\* other request.
C9_RetainOnFailure ==
    [][ev'.status = 500 =>
          /\ cachedRanking' = cachedRanking
          /\ lastCacheTime' = lastCacheTime
          /\ \A j \in 1..MaxRequests : j # Actor => req'[j] = req[j]]_vars

\* C9 witness: a ranking request has failed and the Ranking stored before it,
\* which is not empty, is still there.
C9_Witness ==
    /\ ev.kind = "ranking" /\ ev.status = 500 /\ ev.op \in {"exchange", "fanout"}
    /\ cachedRanking.t = "object" /\ Len(Stored) > 0

\* The stored token is more than 5 minutes (300,000 ms) from its expiry.
InReuseWindow == Truthy(spotifyAccessToken) /\ clock < tokenExpiryTime - 300000

\* C10: a getSpotifyAccessToken call (made on a request's arrival or after a
\* lookup's search) while the stored token is more than 5 minutes from its
\* expiry issues no credential exchange, returns the stored token and leaves
\* token and expiry as they are.
C10_TokenReuse ==
    [][(ev'.op \in {"arrive", "search"} /\ InReuseWindow) =>
          /\ ev'.exchanges = 0
          /\ req'[Actor].pc # "token"
          /\ spotifyAccessToken' = spotifyAccessToken
          /\ tokenExpiryTime' = tokenExpiryTime
          /\ ev'.token.t # "undefined" => ev'.token = spotifyAccessToken]_vars

\* C10 witness: some time after a token was issued, a call returned it.
C10_Witness ==
    /\ ev.op = "arrive" /\ ev.exchanges = 0
    /\ ev.token.t = "string" /\ ev.token = spotifyAccessToken
    /\ clock > tokenExpiryTime - 3600000
    /\ clock < tokenExpiryTime - 300000


\* The stored Credential is left as it was.
CredentialKept ==
    spotifyAccessToken' = spotifyAccessToken /\ tokenExpiryTime' = tokenExpiryTime

\* C11: without a configured client id and secret no step issues a credential
\* exchange and no request gets past getSpotifyAccessToken (its caller answers
\* the error); a failed exchange is answered as an error too; both leave the
\* stored token and expiry as they were, which change only in the step of a
\* successful exchange.
C11_TokenErrors ==
    [][/\ ~credsConfigured =>
             /\ ev'.exchanges = 0 /\ ev'.searches = 0
             /\ ev'.token.t = "undefined"
             /\ \A k \in 1..MaxRequests : req'[k].pc \in {"free", "done"}
             /\ CredentialKept
       /\ (ev'.op = "arrive" /\ ~credsConfigured /\ ev'.status \notin {200, 400, 405}) =>
             ev'.status = 500
       /\ ev'.status = 500 => CredentialKept
       /\ ~CredentialKept =>
             /\ ev'.op = "exchange" /\ ev'.status = 0
             /\ spotifyAccessToken' = ev'.token /\ ev'.token.t = "string"
      ]_vars

\* C11 witness: a credential exchange has failed while a token issued earlier
\* was stored, and that token is still stored.
C11_Witness ==
    /\ ev.op = "exchange" /\ ev.status = 500
    /\ spotifyAccessToken = IssuedToken(1)
    /\ tokenExpiryTime > 0


\* What a search request contributes when failures are tolerated: the items
\* of its page that are not null, and nothing when the request failed or its
\* payload has no artists.items.
Remaining(page) ==
    LET NotNull(a) == a.t # "null"
    IN  IF page.kind = "ok" THEN SelectSeq(page.items, NotNull) ELSE <<>>

RemainingResults(p) ==
    [i \in 1..NumSlots(variant) |->
        SlotArray(IF i <= Len(Payloads[p]) THEN Remaining(Payloads[p][i]) ELSE <<>>)]

\* C12: whichever requests of a fan-out fail (network error, non-success
\* status, a payload without artists or items, a null item), the recomputation
\* completes without error and stores the Ranking built from what remains.
C12_FailuresTolerated ==
    ev.op = "fanout" =>
        /\ ev.status = 200
        /\ cachedRanking = Ranking(Aggregate(variant, RemainingResults(ev.answer)))


\* C13: when the token was obtained and every request of the fan-out failed,
\* the recomputation stores an empty Ranking and the caller is answered 200:
\* the ranking route with an empty list, the lookup with rank -1.
C13_AllFailedIsEmptySuccess ==
    (ev.op = "fanout" /\ Payloads[ev.answer] = <<>>) =>
        /\ ev.status = 200
        /\ cachedRanking = Ranking(<<>>)
        /\ ev.kind = "ranking" => ev.ranking = Ranking(<<>>)
        /\ ev.kind = "lookup" => ev.lookup.rankInTop100 = -1

\* C13 witness: a ranking request whose fan-out failed in every slot was
\* answered 200 with an empty Ranking.
C13_Witness ==
    /\ ev.op = "fanout" /\ ev.kind = "ranking" /\ Payloads[ev.answer] = <<>>
    /\ ev.status = 200 /\ ev.ranking.t = "object" /\ Len(Answered) = 0
    /\ issued >= 1


\* The 1-based position of the entry of `items` with this id, -1 when there is
\* none.
PositionOf(items, id) ==
    IF \E i \in 1..Len(items) : items[i].id = id
    THEN CHOOSE i \in 1..Len(items) :
            items[i].id = id /\ \A j \in 1..(i - 1) : items[j].id # id
    ELSE -1

\* C14: the rankInTop100 of a lookup that found its artist is the 1-based
\* position of the entry with the artist's id in the current Ranking, -1 when
\* the Ranking has no such entry (or there is no Ranking), and never 0.
C14_LookupRank ==
    (ev.kind = "lookup" /\ ev.status = 200) =>
        /\ ev.lookup.rankInTop100 = PositionOf(Stored, ev.lookup.id)
        /\ ev.lookup.rankInTop100 # 0

\* C14 witness: a lookup found the artist that stands at position 5 of the
\* current Ranking and reported 5.
C14_Witness ==
    /\ ev.kind = "lookup" /\ ev.status = 200
    /\ Len(Stored) >= 5
    /\ Stored[5].id = ev.lookup.id
    /\ ev.lookup.rankInTop100 = 5


\* The name is missing, empty or made of whitespace only.
Blank(name) == name \in {"", " "}

\* C15: a lookup whose name is missing, empty or whitespace-only is answered
\* with a client error on arrival, having issued no credential exchange, no
\* search and no fan-out.
C15_BlankNameRejected ==
    (ev.op = "arrive" /\ ev.kind = "lookup" /\ Blank(ev.name)) =>
        /\ ev.status \in {400, 405}
        /\ ev.exchanges = 0 /\ ev.searches = 0 /\ ev.fanouts = 0


\* The stored Ranking and computedAt are left as they were.
CacheKept == cachedRanking' = cachedRanking /\ lastCacheTime' = lastCacheTime

\* C16: a lookup changes the stored Ranking and computedAt only in the step
\* that ends a recomputation it started; a lookup answered 404 has issued no
\* fan-out and changed nothing; and when the stored Ranking is fresh as the
\* search settles, the lookup is answered in that step without any further
\* network call, the Ranking and computedAt unchanged.
C16_LookupKeepsRanking ==
    [][ev'.kind = "lookup" =>
          /\ ev'.status = 404 => (ev'.fanouts = 0 /\ ev'.searches = 0 /\ CacheKept)
          /\ ~CacheKept =>
                (ev'.op = "fanout" /\ ev'.aggregated /\ req[Actor].fanouts = 1)
          /\ (ev'.op = "search" /\ FreshNow) =>
                /\ ev'.status \in {200, 404, 500}
                /\ ev'.searches = 0 /\ ev'.exchanges = 0 /\ ev'.fanouts = 0
                /\ CacheKept]_vars

\* C16 witness: a lookup found its artist while a Ranking that is not empty was
\* stored and fresh, and was answered with its rank in it.
C16_Witness ==
    /\ ev.kind = "lookup" /\ ev.op = "search" /\ ev.status = 200
    /\ variant = "server"
    /\ Len(Stored) > 0 /\ clock < lastCacheTime + 3600000
    /\ ev.lookup.rankInTop100 >= 1


\* The step calls getSpotifyAccessToken: a lookup with a name arrives, a
\* ranking request or a found artist of server's lookup meets a Ranking that is
\* not fresh.
GetTokenCalled ==
    \/ Arrival("lookup") /\ ev'.status \notin {400, 405}
    \/ Arrival("ranking") /\ ~FreshNow
    \/ /\ ev'.op = "search" /\ variant = "server" /\ ~FreshNow
       /\ ev'.status \notin {404, 500}

\* The step is the return of a successful credential exchange.
ExchangeReturned == ev'.op = "exchange" /\ ev'.status = 0

\* What holds of the step in which a successful exchange returns.
NewCredentialStored ==
    /\ ev'.token = IssuedToken(issued') /\ issued' = issued + 1
    /\ ev'.token # spotifyAccessToken
    /\ spotifyAccessToken' = ev'.token
    /\ \E sec \in ExpiresIn : tokenExpiryTime' = req[Actor].tokNow + sec * 1000

\* C17 as stated: every getSpotifyAccessToken call made with no stored token,
\* or at or past the stored expiry minus 5 minutes, performs a credential
\* exchange; a successful one stores the new token and call start + expires_in.
C17_AlwaysExchanges ==
    [][/\ (GetTokenCalled /\ ~InReuseWindow) =>
             (ev'.exchanges = 1 /\ ev'.token.t = "undefined")
       /\ ExchangeReturned => NewCredentialStored]_vars

\* C17 amended: such a call never returns the stored token; with client id and
\* secret configured it issues one credential exchange and waits for it, the
\* call's start time kept; without them it issues none and fails, the stored
\* Credential untouched.  When the exchange succeeds, the stored and returned
\* token is the newly issued one and the stored expiry is the call's start time
\* plus expires_in seconds.
C17_ProactiveRefresh ==
    [][/\ (GetTokenCalled /\ ~InReuseWindow) =>
             /\ ev'.token.t = "undefined" /\ ev'.searches = 0
             /\ IF credsConfigured
                THEN /\ ev'.exchanges = 1 /\ ev'.status = 0
                     /\ req'[Actor].pc = "token" /\ req'[Actor].tokNow = clock
                ELSE ev'.exchanges = 0 /\ ev'.status = 500 /\ CredentialKept
       /\ ExchangeReturned => NewCredentialStored]_vars

\* C17 witness: a call made exactly 5 minutes before the expiry of the stored
\* token exchanged the credentials again, and the second token is stored with
\* an expiry of the call's time plus an hour.
C17_Witness ==
    /\ ev.op = "exchange" /\ ev.status = 0
    /\ issued = 2 /\ spotifyAccessToken = IssuedToken(2)
    /\ clock = Epoch + 3600000 - 300000
    /\ tokenExpiryTime = clock + 3600000


\* C18: in the deployments that keep a Ranking, a lookup whose search found an
\* artist is answered at once, with no further call, when the stored Ranking
\* is fresh; when the Ranking is absent or older than the cache lifetime it is
\* not answered yet but goes on to a recomputation (asking for a token, issuing
\* the fan-out), and is answered when that ends, with the artist's rank in the
\* Ranking just stored.
C18_LookupRecomputesWhenStale ==
    [][(variant # "handler" /\ ev'.kind = "lookup") =>
          /\ (ev'.op = "search" /\ ev'.status \notin {404, 500}) =>
                IF FreshNow
                THEN /\ ev'.status = 200
                     /\ ev'.searches = 0 /\ ev'.exchanges = 0 /\ CacheKept
                ELSE /\ ev'.status = 0
                     /\ req'[Actor].pc \in {"token", "fanout"}
          /\ (ev'.op = "fanout" /\ ev'.status = 200) =>
                /\ cachedRanking' = Ranking(Aggregated[variant][ev'.answer])
                /\ ev'.lookup.rankInTop100 =
                      PositionOf(cachedRanking'.items, ev'.lookup.id)]_vars


\* The value is the complete result of one recomputation: the deduplicated,
\* sorted and truncated aggregate of some upstream answer.
Whole(ranking) ==
    /\ ranking.t = "object"
    /\ \E p \in 1..Len(Payloads) :
          ~Thrown[variant][p] /\ ranking.items = Aggregated[variant][p]
    /\ NonIncreasing(ranking.items)
    /\ DistinctIds(ranking.items)
    /\ Len(ranking.items) <= RANKING_SIZE

\* C19: under any interleaving of requests and in-flight recomputations, the
\* stored Ranking is the initial null or the complete result of one
\* recomputation, and so is every Ranking answered to a reader; the stored
\* Ranking changes only in the step that ends a recomputation, by the
\* assignment of that recomputation's complete result, and no step in between
\* touches it.
C19_WholesaleReplace ==
    /\ [](/\ cachedRanking = NullRanking \/ Whole(cachedRanking)
          /\ ev.ranking.t = "object" => Whole(ev.ranking))
    /\ [][cachedRanking' # cachedRanking =>
             /\ ev'.op = "fanout" /\ ev'.aggregated /\ ev'.status = 200
             /\ cachedRanking' = Ranking(Aggregated[variant][ev'.answer])]_vars

\* C19 witness: one recomputation has just stored a Ranking of several artists
\* while another request's recomputation is still in flight.
C19_Witness ==
    /\ ev.op = "fanout" /\ ev.status = 200
    /\ Len(Stored) >= 2
    /\ \E k \in 1..MaxRequests : req[k].pc = "fanout"

\* The step issues a fan-out for the request that takes it.
FanOutIssued == ev'.req # 0 /\ req'[Actor].pc = "fanout" /\ req[Actor].pc # "fanout"

\* C20: a recomputation issues its searches in one synchronous step, one per
\* (query, offset) pair, and none again; while any of them is pending its
\* request is not resumed: nothing is aggregated, stored or answered; the
\* aggregation and the store happen in a step that starts with none pending.
C20_FanOutSettlesFirst ==
    [][/\ FanOutIssued =>
             /\ ev'.searches = Len(SEARCH_QUERIES(variant)) * Len(SEARCH_OFFSETS(variant))
             /\ req'[Actor].pending = ev'.searches
             /\ req'[Actor].fanouts = 1
             /\ CacheKept
       /\ (ev'.req # 0 /\ req[Actor].pc = "fanout") => ev'.searches = 0
       /\ ev'.op = "response" =>
             /\ ~ev'.aggregated /\ ev'.status = 0 /\ CacheKept
             /\ req'[Actor].pc = "fanout"
       /\ (ev'.aggregated \/ ~CacheKept) =>
             /\ ev'.op = "fanout"
             /\ req[Actor].pending = 0]_vars

\* C20 witness: several searches of a fan-out have settled one by one, the
\* others are pending, and the request waits: nothing is stored.
C20_Witness ==
    /\ ev.op = "response" /\ ev.status = 0
    /\ req[ev.req].pc = "fanout"
    /\ req[ev.req].pending > 0
    /\ req[ev.req].pending < NumSlots(variant) - 1
    /\ cachedRanking = NullRanking


\* The upstream answer whose two equally popular artists come in two groups.
TiedAnswer == Len(Payloads)

\* C21: what a recomputation stores is a function of the upstream answers of
\* its (query, offset) slots alone: whatever order its requests completed in,
\* it stores the aggregation of the answers taken in slot order, and entries of
\* equal popularity stand in the order in which their ids were first accepted
\* in slot order.
C21_Deterministic ==
    (ev.op = "fanout" /\ ev.status = 200) =>
        /\ Stored = Aggregated[variant][ev.answer]
        /\ \A i, j \in 1..Len(Stored) :
              (i < j /\ Stored[i].popularity = Stored[j].popularity) =>
                  PositionOf(AcceptedOf(ev.answer), Stored[i].id)
                      < PositionOf(AcceptedOf(ev.answer), Stored[j].id)

\* C21 witness: the requests completed in reverse; ids A and C, equally
\* popular and answered by different slots, are stored A first.
C21_Witness ==
    /\ StoredAnswer(TiedAnswer)
    /\ ev.order = 2
    /\ Len(Stored) = 3
    /\ Stored[1].id = Str("A") /\ Stored[2].id = Str("C")
    /\ Stored[1].popularity = Stored[2].popularity

\* The last accepted occurrence of id x among the accepted artists acc.
LastOccurrence(acc, x) ==
    acc[CHOOSE i \in 1..Len(acc) : acc[i].id = x /\ \A j \in (i + 1)..Len(acc) : acc[j].id # x]

\* C22: the record a recomputation stores for an id is built from the last
\* accepted occurrence of that id in visiting order (group by group, item by
\* item): its name, followers and popularity are that occurrence's, its
\* imageUrl is the url of one of that occurrence's images, and no stored
\* entry's last occurrence is less popular than that of the entry after it.
C22_LastWriteWins ==
    (ev.op = "fanout" /\ ev.status = 200) =>
        LET acc == AcceptedOf(ev.answer)
        IN  /\ \A j \in 1..Len(Stored) :
                  LET last == LastOccurrence(acc, Stored[j].id)
                  IN  /\ Stored[j].name = last.name
                      /\ Stored[j].followers = last.followers.total
                      /\ Stored[j].popularity = last.popularity
                      /\ \E i \in 1..Len(last.images.items) :
                            Stored[j].imageUrl = last.images.items[i].url
            /\ \A i \in 1..(Len(Stored) - 1) :
                  LastOccurrence(acc, Stored[i].id).popularity.n
                      >= LastOccurrence(acc, Stored[i + 1].id).popularity.n

\* C22 witness: id A was accepted twice, first with popularity 90 under the
\* name "Artist A", last with popularity 96 under another name; the stored
\* record has the later values and stands ahead of B (95).
C22_Witness ==
    /\ StoredAnswer(3)
    /\ AcceptedOf(3)[1] = ArtistA
    /\ LastOccurrence(AcceptedOf(3), Str("A")) = ArtistA2
    /\ Stored[1].id = Str("A") /\ Stored[1].name = ArtistA2.name
    /\ Stored[1].popularity = Num(96) /\ Stored[1].followers = Num(1001)
    /\ Stored[2].id = Str("B")

\* The canonical image of a list: one 64 wide when there is one, else the last.
IsCanonical(url, images) ==
    IF \E i \in 1..Len(images) : images[i].width = Num(64)
    THEN \E i \in 1..Len(images) : images[i].width = Num(64) /\ url = images[i].url
    ELSE url = images[Len(images)].url

\* C23: the imageUrl stored for an accepted artist is the url of an image 64
\* wide when the artist's image list has one, and the url of the last image of
\* the list otherwise.
C23_CanonicalImage ==
    (ev.op = "fanout" /\ ev.status = 200) =>
        \A j \in 1..Len(Stored) :
            IsCanonical(Stored[j].imageUrl,
                        LastOccurrence(AcceptedOf(ev.answer), Stored[j].id).images.items)

\* A credential exchange is in flight: its caller has not been resumed yet.
ExchangeInFlight == \E j \in 1..MaxRequests : req[j].pc = "token"

\* C24: a getSpotifyAccessToken call that finds no token, or one within 5
\* minutes of its expiry, while another caller's exchange is still in flight
\* issues an exchange of its own and leaves the other waiting; every exchange
\* that returns gives its caller the token of its own response and stores that
\* token with its expiry over whatever was stored, so that the credential of
\* the exchange that returns last is the one left.
C24_UncoalescedRefresh ==
    [][/\ (GetTokenCalled /\ ~InReuseWindow /\ credsConfigured /\ ExchangeInFlight) =>
              /\ ev'.exchanges = 1
              /\ req'[Actor].pc = "token"
              /\ \A j \in 1..MaxRequests : req[j].pc = "token" => req'[j] = req[j]
              /\ CredentialKept
       /\ ExchangeReturned =>
              /\ NewCredentialStored
              /\ \A j \in 1..MaxRequests : j # Actor => req'[j] = req[j]
      ]_vars

\* C24 witness: two callers found no token at the same instant; both exchanges
\* have returned, each with its own token, and the second one's is stored.
C24_Witness ==
    /\ ticks = 0
    /\ issued = 2
    /\ ev.op = "exchange"
    /\ ev.token = IssuedToken(2)
    /\ spotifyAccessToken = IssuedToken(2)
    /\ \E i, j \in 1..MaxRequests : i # j /\ req[i].tokNow = Epoch /\ req[j].tokNow = Epoch

\* Another request's recomputation is in flight: it waits for its token or for
\* its searches, and has stored nothing yet.
RecomputationInFlight ==
    \E j \in 1..MaxRequests :
        req[j].pc = "fanout" \/ (req[j].pc = "token" /\ req[j].cont = "fanout")

\* The step reads the Ranking through the cache test and finds it absent or
\* stale: a ranking request's arrival, or the return of a server lookup's
\* search.
StaleRead ==
    /\ \/ Arrival("ranking")
       \/ ev'.op = "search" /\ variant = "server" /\ ev'.status \notin {404, 500}
    /\ ~FreshNow

\* C25: a request that finds the Ranking absent or stale while another
\* request's recomputation is in flight does not wait for that one: with
\* credentials configured it goes on to a recomputation of its own (through a
\* token exchange when it has no usable token), which sends a full fan-out of
\* its own, the other request left as it was; and every recomputation whose
\* aggregation completes stores its own result over whatever is stored, so
\* that the Ranking of the one that finishes last is the one left.
C25_UncoalescedRecompute ==
    [][/\ (StaleRead /\ RecomputationInFlight /\ credsConfigured) =>
              /\ \/ /\ req'[Actor].pc = "fanout"
                    /\ ev'.searches = FullFanOut
                    /\ req'[Actor].pending = FullFanOut
                 \/ /\ req'[Actor].pc = "token"
                    /\ req'[Actor].cont = "fanout"
                    /\ ev'.exchanges = 1
              /\ \A j \in 1..MaxRequests : j # Actor => req'[j] = req[j]
              /\ CacheKept
       /\ (ExchangeReturned /\ req[Actor].cont = "fanout") =>
              /\ req'[Actor].pc = "fanout"
              /\ ev'.searches = FullFanOut
              /\ req'[Actor].pending = FullFanOut
       /\ (ev'.op = "fanout" /\ ev'.status = 200) =>
              /\ cachedRanking' = Ranking(Aggregated[variant][ev'.answer])
              /\ \A j \in 1..MaxRequests : j # Actor => req'[j] = req[j]
      ]_vars

\* C25 witness: two requests found no Ranking at the same instant and each
\* sent a fan-out; one has just stored its result while the other's fan-out,
\* sent before that store, is still waiting to be aggregated.
C25_Witness ==
    /\ ticks = 0
    /\ ev.op = "fanout" /\ ev.status = 200 /\ ev.fanouts = 1
    /\ cachedRanking = Ranking(Aggregated[variant][ev.answer])
    /\ \E j \in 1..MaxRequests :
          j # ev.req /\ req[j].pc = "fanout" /\ req[j].fanouts = 1

\* C26: no step lowers the stored cache timestamp: every write to
\* lastCacheTime stores a value at least as large as the one it replaces.
C26_TimestampNeverDecreases == [][lastCacheTime' >= lastCacheTime]_vars

\* The stored Ranking is the empty one and less than an hour old.
EmptyFresh == cachedRanking = Ranking(<<>>) /\ FreshNow

\* C27: a recomputation whose aggregation leaves nothing stores the empty
\* Ranking with a timestamp like any other; while the empty Ranking is stored
\* and less than an hour old, a ranking request is answered 200 with the empty
\* Ranking on arrival, with no exchange, no search and no change to the cache,
\* and a lookup whose search returns its artist is answered 200 in that step
\* with rankInTop100 = -1, having sent no fan-out.
C27_EmptyIsFresh ==
    [][/\ (ev'.op = "fanout" /\ ev'.status = 200
              /\ Aggregated[variant][ev'.answer] = <<>>) =>
              /\ cachedRanking' = Ranking(<<>>)
              /\ lastCacheTime' \in {clock, req[Actor].reqNow}
              /\ lastCacheTime' > 0
       /\ (Arrival("ranking") /\ EmptyFresh) =>
              /\ ev'.status = 200
              /\ ev'.ranking = Ranking(<<>>)
              /\ ev'.exchanges = 0 /\ ev'.searches = 0 /\ ev'.fanouts = 0
              /\ CacheKept
       /\ (ev'.kind = "lookup" /\ ev'.op = "search" /\ ev'.status = 200 /\ EmptyFresh) =>
              /\ ev'.lookup.rankInTop100 = -1
              /\ ev'.searches = 0 /\ ev'.fanouts = 0
              /\ CacheKept
      ]_vars

\* C27 witness: every search of a fan-out failed and the empty Ranking was
\* stored; time has passed, and a ranking request has just been answered the
\* empty Ranking on arrival.
C27_Witness ==
    /\ ev.op = "arrive" /\ ev.kind = "ranking" /\ ev.status = 200
    /\ ev.ranking = Ranking(<<>>)
    /\ ev.searches = 0
    /\ cachedRanking = Ranking(<<>>)
    /\ clock > lastCacheTime
    /\ Payloads[1] = <<>>

\* C28: the stored token and expiry are a pair: with no token stored the
\* expiry is 0, a stored token is one an exchange has issued and has an expiry
\* with it; and the only step that changes either of them is the return of a
\* successful exchange, which writes both from its own response (the token it
\* issued, and its caller's `now` plus the lifetime it granted), whatever other
\* calls are in flight and whichever exchanges fail.
C28_PairedCredential ==
    /\ [](\/ spotifyAccessToken = JsNull /\ tokenExpiryTime = 0
          \/ /\ \E n \in 1..issued : spotifyAccessToken = IssuedToken(n)
             /\ tokenExpiryTime > 0)
    /\ [][~CredentialKept =>
              /\ ExchangeReturned
              /\ spotifyAccessToken' = IssuedToken(issued + 1)
              /\ issued' = issued + 1
              /\ \E sec \in ExpiresIn : tokenExpiryTime' = req[Actor].tokNow + sec * 1000
         ]_vars

\* C28 witness: two calls overlapped; the later caller's exchange returned
\* first, the earlier caller's has just returned: the stored token is the
\* second one issued and the stored expiry is counted from the earlier call.
C28_Witness ==
    /\ ev.op = "exchange"
    /\ issued = 2
    /\ spotifyAccessToken = IssuedToken(2)
    /\ tokenExpiryTime = Epoch + 3600 * 1000
    /\ \E j \in 1..MaxRequests :
          j # ev.req /\ req[j].tokNow > Epoch /\ req[j].pc \in {"search", "fanout"}

\* A raw artist with every field the aggregator asks for: an id, a name, a
\* followers count that is a number not below 0, a numeric popularity and an
\* image with a url.
WellFormed(a) ==
    /\ a.t = "object"
    /\ a.id.t = "string" /\ a.id.s # ""
    /\ a.name.t = "string" /\ a.name.s # ""
    /\ a.followers.t = "object"
    /\ a.followers.total.t = "number" /\ a.followers.total.n >= 0
    /\ a.popularity.t = "number"
    /\ a.images.t = "object" /\ Len(a.images.items) > 0
    /\ \A i \in 1..Len(a.images.items) :
          a.images.items[i].url.t = "string" /\ a.images.items[i].url.s # ""

\* The artists of upstream answer p that are not null, in visiting order.
RawArtistsOf(p) ==
    LET IsArtist(a) == a.t = "object"
    IN  SelectSeq(Visited(Results(variant, Payloads[p]), 1, NumSlots(variant)), IsArtist)

\* C29: every raw artist with all its fields present is accepted, a followers
\* count of 0 or a popularity of 0 included: when a recomputation stores the
\* aggregation of an upstream answer of at most 100 artists, each such artist
\* of the answer has an entry in the stored Ranking.
C29_ZeroCountsAccepted ==
    (ev.op = "fanout" /\ ev.status = 200 /\ Len(RawArtistsOf(ev.answer)) <= RANKING_SIZE) =>
        \A i \in 1..Len(RawArtistsOf(ev.answer)) :
            WellFormed(RawArtistsOf(ev.answer)[i]) =>
                \E j \in 1..Len(Stored) : Stored[j].id = RawArtistsOf(ev.answer)[i].id

====
